---- MODULE Spec2Model ----
(***************************************************************************)
(* A model of the notte agent core:                                        *)
(*   - SafeActionExecutor (notte_agent/common/safe_executor.py)            *)
(*   - FalcoAgent.run / _run / step (notte/agents/falco/agent.py)          *)
(*   - FalcoAgent.get_messages and the Conversation it fills               *)
(* Four specifications share the operators:                                *)
(*   SpecExecutor     : one SafeActionExecutor driven by an arbitrary      *)
(*                      caller                                             *)
(*   Spec             : the FalcoAgent run loop driving its step_executor  *)
(*   SpecConversation : one Conversation receiving arbitrary appends       *)
(*   SpecContext      : a trajectory being filled and get_messages         *)
(***************************************************************************)
EXTENDS Integers, Sequences, FiniteSets, TLC

VARIABLES
    \* ---- SafeActionExecutor fields
    max_consecutive_failures,
    raise_on_failure,
    precheck_func,
    on_failure_handlers,
    consecutive_failures,
    \* ---- observation of the latest executor operation (history variable)
    call,
    \* ---- FalcoAgent configuration
    raise_condition,
    max_actions_per_step,
    max_steps,
    \* ---- FalcoAgent run state
    pc,
    step_i,
    pending,
    output,
    trajectory,
    response,
    \* ---- history variables of the run
    reruns,
    invalid_seen,
    created,
    fail_streak,
    validations,
    raised_inside,
    \* ---- Conversation (the message buffer) and the context it is built from
    conv,
    max_tokens,
    conv_log,
    history_type,
    include_screenshot,
    traj_log,
    \* ---- GlobalWindowManager (class-level state shared by every run) and the
    \*      runs that open and close windows through it
    playwright,
    browser,
    started,
    instances,
    stopped,
    win_pc,
    resource

execVars == <<max_consecutive_failures, raise_on_failure, precheck_func,
              on_failure_handlers, consecutive_failures>>
cfgVars == <<raise_condition, max_actions_per_step, max_steps>>
runVars == <<pc, step_i, pending, output, trajectory, response>>
histVars == <<reruns, invalid_seen, created>>
streakVars == <<fail_streak>>
runHistVars == <<validations, raised_inside>>
ctxVars == <<conv, max_tokens, conv_log, history_type, include_screenshot, traj_log>>
winVars == <<playwright, browser, started, instances, stopped, win_pc, resource>>
vars == <<execVars, call, cfgVars, runVars, histVars, streakVars, runHistVars,
          ctxVars, winVars>>

----------------------------------------------------------------------------
(* Bounds of the model *)

\* largest failure ceiling explored (the default ceiling 3 is included)
MaxCeiling == 3
\* how far past the ceiling the failure counter is followed (SpecExecutor)
ExtraFailures == 2
\* largest max_actions_per_step explored
MaxActions == 2
\* largest step budget explored
MaxSteps == 2
\* number of reasoning calls followed in one run (each adds a step entry)
MaxReasonCalls == 4

----------------------------------------------------------------------------
(* Values *)

None == "None"
ActionIds == {"a1", "a2"}
Observations == {"obs_a1", "obs_nospace", "obs_data"}

\* the exception classes execute() tells apart, by its except clauses
ErrorKinds == {"RateLimitError", "InvalidActionIDError", "NotteBaseError",
               "ValidationError", "Exception"}

\* InvalidActionIDError is a NotteBaseError (its agent_message is read by the handler)
IsNotteBaseError(e) == e \in {"InvalidActionIDError", "NotteBaseError"}

\* RaiseCondition
RaiseConditions == {"immediately", "retry", "never"}

DefaultMaxConsecutiveFailures == 3
DefaultMaxActionsPerStep == 1
DefaultRaiseCondition == "retry"

----------------------------------------------------------------------------
(* SafeActionExecutor *)

\* ExecutionStatus(input, output, success, message, should_rerun_step_agent)
ExecutionStatus(i, o, s, m, r) ==
    [input |-> i, output |-> o, success |-> s, message |-> m,
     should_rerun_step_agent |-> r]

\* the message execute() passes to on_failure for an exception of class e
ClassifiedMessage(e) ==
    CASE e = "RateLimitError" -> [text |-> "Rate limit reached", of |-> e]
      [] IsNotteBaseError(e) ->
            IF raise_on_failure THEN [text |-> "dev_message", of |-> e]
                                ELSE [text |-> "agent_message", of |-> e]
      [] e = "ValidationError" -> [text |-> "JSON Schema Validation error", of |-> e]
      [] OTHER -> [text |-> "An unexpected error occurred", of |-> e]

SuccessMessage(i) == [text |-> "Successfully executed action", of |-> i]
MaxFailuresMessage == [text |-> "Max consecutive failures reached", of |-> None]
NoMessage == [text |-> None, of |-> None]

\* what one execute() call did: the exception it raised ("none" when it returned),
\* the status it returned (<<>> when it raised), the counter it left, whether the
\* wrapped operation ran, and the handler invocations (error, counter seen)
CallResult(raised, msg, status, cf, ran, handled) ==
    [raised |-> raised, message |-> msg, status |-> status,
     consecutive_failures |-> cf, func_ran |-> ran, handled |-> handled]

\* mutant: the failed status keeps an output
FailureStatusKeepsOutput(input_data, error_msg, cf) ==
    ExecutionStatus(input_data, input_data, FALSE, error_msg,
                    IF cf <= max_consecutive_failures THEN TRUE ELSE FALSE)

\* mutant: the failed status never asks for a re-run
FailureStatusNoRerun(input_data, error_msg, cf) ==
    ExecutionStatus(input_data, None, FALSE, error_msg, FALSE)

\* the status on_failure returns (lines 79-85)
FailureStatus(input_data, error_msg, cf) ==
    ExecutionStatus(input_data, None, FALSE, error_msg,
                    IF cf <= max_consecutive_failures THEN TRUE ELSE FALSE)

\* mutant: the ceiling test is an equality
CeilingExactly(cf) == cf = max_consecutive_failures

\* mutant: the ceiling test is strict
CeilingExceeded(cf) == cf > max_consecutive_failures

\* on_failure: the fatal ceiling test (line 75)
CeilingReached(cf) == cf >= max_consecutive_failures

\* mutant: below the ceiling a failure is always returned, never raised
on_failure_lenient(cf, input_data, error_msg, e, ran) ==
    LET n == cf + 1
        handled == IF e \in on_failure_handlers THEN <<[e |-> e, seen |-> n]>> ELSE <<>>
    IN  IF CeilingReached(n)
        THEN CallResult("MaxConsecutiveFailuresError", MaxFailuresMessage, <<>>, n, ran, handled)
        ELSE CallResult("none", error_msg, <<FailureStatus(input_data, error_msg, n)>>,
                        n, ran, handled)

\* mutant: the handler is called after the ceiling test and the raise
on_failure_handler_last(cf, input_data, error_msg, e, ran) ==
    LET n == cf + 1
        handled == IF e \in on_failure_handlers THEN <<[e |-> e, seen |-> n]>> ELSE <<>>
    IN  IF CeilingReached(n)
        THEN CallResult("MaxConsecutiveFailuresError", MaxFailuresMessage, <<>>, n, ran, <<>>)
        ELSE IF raise_on_failure
        THEN CallResult("StepExecutionFailure", error_msg, <<>>, n, ran, <<>>)
        ELSE CallResult("none", error_msg, <<FailureStatus(input_data, error_msg, n)>>,
                        n, ran, handled)

\* mutant: raising MaxConsecutiveFailuresError clears the counter
on_failure_clears_on_raise(cf, input_data, error_msg, e, ran) ==
    LET n == cf + 1
        handled == IF e \in on_failure_handlers THEN <<[e |-> e, seen |-> n]>> ELSE <<>>
    IN  IF CeilingReached(n)
        THEN CallResult("MaxConsecutiveFailuresError", MaxFailuresMessage, <<>>, 0, ran, handled)
        ELSE IF raise_on_failure
        THEN CallResult("StepExecutionFailure", error_msg, <<>>, n, ran, handled)
        ELSE CallResult("none", error_msg, <<FailureStatus(input_data, error_msg, n)>>,
                        n, ran, handled)

\* on_failure(input_data, error_msg, e), started with the counter at cf
on_failure(cf, input_data, error_msg, e, ran) ==
    LET n == cf + 1
        handled == IF e \in on_failure_handlers THEN <<[e |-> e, seen |-> n]>> ELSE <<>>
    IN  IF CeilingReached(n)
        THEN CallResult("MaxConsecutiveFailuresError", MaxFailuresMessage, <<>>, n, ran, handled)
        ELSE IF raise_on_failure
        THEN CallResult("StepExecutionFailure", error_msg, <<>>, n, ran, handled)
        ELSE CallResult("none", error_msg, <<FailureStatus(input_data, error_msg, n)>>,
                        n, ran, handled)

\* mutant: a successful status asks for a re-run
SuccessStatusRerun(input_data, result) ==
    ExecutionStatus(input_data, result, TRUE, SuccessMessage(input_data), TRUE)

\* the status execute() returns on success (lines 95-100)
SuccessStatus(input_data, result) ==
    ExecutionStatus(input_data, result, TRUE, SuccessMessage(input_data), FALSE)

\* mutant: success leaves the counter alone
CounterKept(cf) == cf

\* the counter after a successful operation (line 94)
CounterAfterSuccess(cf) == 0

\* self.precheck_func(input_data) (lines 91-92): the call is not awaited, so a
\* coroutine function's body never runs and nothing is raised; verdict is the
\* exception the body raises when it runs ("none": it passes)
PrecheckRaised(verdict) ==
    IF precheck_func = "sync" THEN verdict ELSE "none"

\* execute(input_data), started with the counter at cf; verdict is what the
\* precheck's body decides, func the wrapped operation's outcome
execute(cf, input_data, verdict, func) ==
    IF PrecheckRaised(verdict) # "none"
    THEN on_failure(cf, input_data, ClassifiedMessage(PrecheckRaised(verdict)),
                    PrecheckRaised(verdict), FALSE)
    ELSE IF func.ok
    THEN CallResult("none", SuccessMessage(input_data),
                    <<SuccessStatus(input_data, func.value)>>,
                    CounterAfterSuccess(cf), TRUE, <<>>)
    ELSE on_failure(cf, input_data, ClassifiedMessage(func.value), func.value, TRUE)

\* outcomes of a wrapped operation: a result, or an exception of some class
FuncOutcomes ==
    [ok : {TRUE}, value : Observations] \cup [ok : {FALSE}, value : ErrorKinds]

\* verdicts of a precheck body: passes, or raises an exception of some class
Verdicts == {"none", "InvalidActionIDError", "Exception"}

NoCall ==
    [op |-> "none", input |-> None, pre |-> 0, streak |-> 0, verdict |-> "none",
     func |-> [ok |-> TRUE, value |-> None], valid_set |-> {},
     result |-> CallResult("none", NoMessage, <<>>, 0, FALSE, <<>>)]

\* the record of one execute() call: the counter (pre) and the number of failing
\* calls in a row (streak) before it, its inputs, the valid-action set at the
\* time of the call, and what it did
ExecuteRecord(pre, input_data, verdict, func, valid_set) ==
    [op |-> "execute", input |-> input_data, pre |-> pre, streak |-> fail_streak,
     verdict |-> verdict, func |-> func, valid_set |-> valid_set,
     result |-> execute(pre, input_data, verdict, func)]

\* the operation of a recorded call succeeded: it ran and returned a result
Succeeded(c) == c.op = "execute" /\ c.result.func_ran /\ c.func.ok
\* a recorded call failed: its precheck or its operation raised
Failed(c) == c.op = "execute" /\ ~(c.result.func_ran /\ c.func.ok)
\* the class of the exception a failed call handled
FailureKind(c) == IF c.result.func_ran THEN c.func.value ELSE c.verdict
\* failing calls in a row after a recorded call
StreakAfter(c) == IF Failed(c) THEN c.streak + 1 ELSE 0

----------------------------------------------------------------------------
(* SpecExecutor: one executor, any caller *)

\* HistoryType (agent.py 48-53)
HistoryTypes ==
    {"full_conversation", "short_observations", "short_observations_with_raw_data",
     "short_observations_with_short_data", "compressed"}
DefaultHistoryType == "short_observations_with_short_data"

Runs == {"A", "B"}
NoInstance == 0
NoBrowser == 0

\* GlobalWindowManager as the class body leaves it (playwright.py 193-195): a
\* WindowManager with no playwright instance and no browser, started False;
\* no run has asked for a window
WindowsIdle ==
    /\ playwright = NoInstance
    /\ browser = NoBrowser
    /\ started = FALSE
    /\ instances = 0
    /\ stopped = {}
    /\ win_pc = [r \in Runs |-> "idle"]
    /\ resource = [r \in Runs |-> NoBrowser]

\* no conversation is being built
ContextIdle ==
    /\ conv = <<>>
    /\ max_tokens = 1
    /\ conv_log = <<>>
    /\ history_type = DefaultHistoryType
    /\ include_screenshot = FALSE
    /\ traj_log = <<>>

AgentIdle ==
    /\ raise_condition = DefaultRaiseCondition
    /\ max_actions_per_step = DefaultMaxActionsPerStep
    /\ max_steps = 1
    /\ pc = "init"
    /\ step_i = 0
    /\ pending = <<>>
    /\ output = None
    /\ trajectory = <<>>
    /\ response = None
    /\ reruns = 0
    /\ invalid_seen = 0
    /\ created = {}
    /\ fail_streak = 0
    /\ validations = <<>>
    /\ raised_inside = "none"
    /\ ContextIdle
    /\ WindowsIdle

\* SafeActionExecutor.__init__
InitExecutor ==
    /\ max_consecutive_failures \in 1..MaxCeiling
    /\ raise_on_failure \in BOOLEAN
    /\ precheck_func \in {"none", "sync", "async"}
    /\ on_failure_handlers \in {{}, {"InvalidActionIDError"}}
    /\ consecutive_failures = 0
    /\ call = NoCall
    /\ AgentIdle

\* a caller awaits execute(input_data)
ExecuteCall ==
    \E input_data \in ActionIds, verdict \in Verdicts, func \in FuncOutcomes :
        /\ consecutive_failures < max_consecutive_failures + ExtraFailures
        /\ call' = ExecuteRecord(consecutive_failures, input_data, verdict, func, ActionIds)
        /\ consecutive_failures' = call'.result.consecutive_failures
        /\ fail_streak' = StreakAfter(call')
        /\ UNCHANGED <<max_consecutive_failures, raise_on_failure, precheck_func,
                       on_failure_handlers, cfgVars, winVars, runVars, histVars,
                   runHistVars, ctxVars>>

\* a caller calls reset()
ResetCall ==
    /\ consecutive_failures' = 0
    /\ call' = [NoCall EXCEPT !.op = "reset", !.pre = consecutive_failures,
                             !.streak = fail_streak]
    /\ fail_streak' = 0
    /\ UNCHANGED <<max_consecutive_failures, raise_on_failure, precheck_func,
                   on_failure_handlers, cfgVars, winVars, runVars, histVars,
                   runHistVars, ctxVars>>

NextExecutor == ExecuteCall \/ ResetCall

SpecExecutor == InitExecutor /\ [][NextExecutor]_vars

----------------------------------------------------------------------------
(* Observation, trajectory, reasoning decisions *)

\* Observation.has_space: the observation carries an action space
has_space(obs) == obs = "obs_a1"

\* Observation.has_data: the observation carries scraped data
has_data(obs) == obs = "obs_data"

\* the action ids of the observation's action space
space_actions(obs) == IF obs = "obs_a1" THEN {"a1"} ELSE {}

\* FalcoAgent._get_valid_action_set(last_obs)
get_valid_action_set(obs) ==
    IF obs # None /\ has_space(obs)
    THEN space_actions(obs)
    ELSE {}

\* a reasoning decision (StepAgentOutput): candidate actions, with or without a
\* completion signal (output)
CompletionActions == {"done_success", "done_failure"}
\* every completion decision read as a success
CompletionAlwaysSuccess(o) == TRUE
CompletionSuccess(o) == o = "done_success"
ActionLists ==
    {<<a>> : a \in ActionIds} \cup {<<"a1", "a2">>}
Decision(o, acts) == [output |-> o, actions |-> acts]
Decisions ==
    {Decision("done_success", <<"a1">>), Decision("done_failure", <<>>)}
    \cup {Decision(None, acts) : acts \in ActionLists}

\* a completion signal looked for only in a decision without candidate actions
CompletionMissed(decision) == decision.output # None /\ decision.actions = <<>>

\* step(): "if response.output is not None" (agent.py 240)
CompletionSignalled(decision) == decision.output # None

\* response.get_actions(max_actions_per_step): the first candidate actions
get_actions(decision, n) ==
    SubSeq(decision.actions, 1, IF Len(decision.actions) < n
                                THEN Len(decision.actions) ELSE n)

\* trajectory.add_output(response): a new step entry with no result yet
add_output(traj, decision) ==
    Append(traj, [agent_response |-> decision, results |-> <<>>])

\* trajectory.add_step(result): the result joins the latest step entry
add_step(traj, status) ==
    [traj EXCEPT ![Len(traj)].results = Append(@, status)]

\* the results of all step entries, in order
RECURSIVE AllResults(_)
AllResults(traj) ==
    IF traj = <<>> THEN <<>>
    ELSE AllResults(SubSeq(traj, 1, Len(traj) - 1)) \o traj[Len(traj)].results

\* trajectory.last_obs(): the output of the most recent successful result
RECURSIVE LastSuccessOutput(_)
LastSuccessOutput(results) ==
    IF results = <<>> THEN None
    ELSE IF results[Len(results)].success /\ results[Len(results)].output # None
    THEN results[Len(results)].output
    ELSE LastSuccessOutput(SubSeq(results, 1, Len(results) - 1))

last_obs(traj) == LastSuccessOutput(AllResults(traj))

\* FalcoAgent._is_first_step
is_first_step == Len(trajectory) = 1

\* the body of precheck_action (agent.py 118-122): the exception it raises for
\* this action when it runs
precheck_action(action) ==
    IF ~is_first_step /\ action \notin get_valid_action_set(last_obs(trajectory))
    THEN "InvalidActionIDError"
    ELSE "none"

\* the environment: act(action) raises an exception of some class, or returns the
\* observation of the page the action leads to (a page that lists action a1, or a
\* page with no action space); observe() returns the current page
ActOutcomes(action) ==
    [ok : {TRUE}, value : {IF action = "a1" THEN "obs_a1" ELSE "obs_nospace"}]
    \cup [ok : {FALSE}, value : ErrorKinds]

\* the status step() records after a failed action (agent.py 261-266)
FallbackStatus(obs) ==
    ExecutionStatus("FallbackObserveAction", obs, TRUE,
                    [text |-> "Observed", of |-> None], FALSE)

\* a rejection recorded as a successful step
ValidationRecordedAsSuccess(o, reason) ==
    ExecutionStatus(o, None, TRUE,
                    [text |-> "Final validation failed", of |-> reason], FALSE)

\* the status _run() records when the validator rejects (agent.py 320-325)
ValidationFailedStatus(o, reason) ==
    ExecutionStatus(o, None, FALSE,
                    [text |-> "Final validation failed", of |-> reason], FALSE)

\* the validator's verdict (val.is_valid, val.reason)
ValidationReasons == {"answer incomplete", "wrong format"}
ValidationResults ==
    {[is_valid |-> TRUE, reason |-> None]}
    \cup {[is_valid |-> FALSE, reason |-> r] : r \in ValidationReasons}

\* a validator whose verdict is not read
ValidatorIgnored(val) == TRUE

\* _run(): "if val.is_valid" (agent.py 311)
ValidatorAccepts(val) == val.is_valid

\* a loop over the candidate actions that starts from the last one
LastAction(actions) == actions[Len(actions)]

\* "for action in response.get_actions(...)" (agent.py 244): the next candidate
NextAction(actions) == Head(actions)

\* a step executor that never raises on a failure below the ceiling
RaiseOnFailureNever(rc) == FALSE

\* raise_on_failure of the step executor (agent.py 147)
RaiseOnFailure(rc) == rc = "immediately"

\* AgentResponse, or the exception run() raised
Response(success, answer, raised) ==
    [success |-> success, answer |-> answer, raised |-> raised]

----------------------------------------------------------------------------
(* Spec: FalcoAgent *)

\* FalcoAgent.__init__ (the step executor: agent.py 143-149)
Init ==
    /\ raise_condition \in RaiseConditions
    /\ max_actions_per_step \in {DefaultMaxActionsPerStep, MaxActions}
    /\ max_steps \in 1..MaxSteps
    /\ max_consecutive_failures \in 1..MaxCeiling
    /\ raise_on_failure = RaiseOnFailure(raise_condition)
    /\ precheck_func = "async"
    /\ on_failure_handlers = {"InvalidActionIDError"}
    /\ consecutive_failures = 0
    /\ call = NoCall
    /\ pc = "init"
    /\ step_i = 0
    /\ pending = <<>>
    /\ output = None
    /\ trajectory = <<>>
    /\ response = None
    /\ reruns = 0
    /\ invalid_seen = 0
    /\ created = {}
    /\ fail_streak = 0
    /\ validations = <<>>
    /\ raised_inside = "none"
    /\ ContextIdle
    /\ WindowsIdle

\* run(task) enters _run's loop
Run ==
    /\ pc = "init"
    /\ pc' = "step"
    /\ step_i' = 0
    /\ UNCHANGED <<execVars, call, cfgVars, winVars, pending, output, trajectory, response,
                   histVars, streakVars, runHistVars, ctxVars>>

\* step(): the reasoning call, add_output and the completion test (225-241)
Reason ==
    \E decision \in Decisions :
        /\ pc = "step"
        /\ Len(trajectory) < MaxReasonCalls
        /\ trajectory' = add_output(trajectory, decision)
        /\ call' = NoCall
        /\ created' = {}
        /\ IF CompletionSignalled(decision)
           THEN /\ output' = decision.output
                /\ pending' = <<>>
                /\ pc' = "check"
           ELSE /\ output' = None
                /\ pending' = get_actions(decision, max_actions_per_step)
                /\ pc' = "act"
        /\ UNCHANGED <<execVars, cfgVars, winVars, step_i, response, reruns, invalid_seen,
                       streakVars, runHistVars, ctxVars>>

\* run() without its except clause for NEVER
RunAlwaysRaises(e) ==
    /\ raised_inside' = e
    /\ pc' = "raised"
    /\ response' = Response(FALSE, None, e)

\* a loop that swallows the exception and goes on with the next reasoning call
RunGoesOn(e) ==
    /\ raised_inside' = e
    /\ pc' = "step"
    /\ response' = response

\* an exception leaves run() (276-285)
RunRaises(e) ==
    /\ raised_inside' = e
    /\ IF raise_condition = "never"
       THEN /\ pc' = "done"
            /\ response' = Response(FALSE, "Failed due to", "none")
       ELSE /\ pc' = "raised"
            /\ response' = Response(FALSE, None, e)

\* step(): the reasoning call raises (agent.py 228)
ReasonRaises ==
    /\ pc = "step"
    /\ call' = NoCall
    /\ created' = {}
    /\ RunRaises("LLMError")
    /\ UNCHANGED <<execVars, cfgVars, winVars, step_i, pending, output, trajectory, reruns,
                   invalid_seen, streakVars, validations, ctxVars>>

\* step() returned None: the loop of _run goes on, or the budget is used up
\* (297-302, 328-331)
NextTaskStep ==
    /\ step_i' = step_i + 1
    /\ reruns' = 0
    /\ invalid_seen' = 0
    /\ IF step_i + 1 < max_steps
       THEN /\ pc' = "step"
            /\ response' = response
       ELSE /\ pc' = "done"
            /\ response' = Response(FALSE, "Failed to solve task in max_steps steps", "none")

\* step(): one round of the loop over the candidate actions (244-273)
Act ==
    /\ pc = "act"
    /\ pending # <<>>
    /\ \E func \in ActOutcomes(NextAction(pending)) :
            LET action == NextAction(pending)
                verdict == precheck_action(action)
                rec == ExecuteRecord(consecutive_failures, action, verdict, func,
                                     get_valid_action_set(last_obs(trajectory)))
                res == rec.result
            IN  /\ call' = rec
                /\ consecutive_failures' = res.consecutive_failures
                /\ fail_streak' = StreakAfter(rec)
                /\ output' = output
                /\ UNCHANGED <<max_consecutive_failures, raise_on_failure, precheck_func,
                               on_failure_handlers, cfgVars, winVars, validations, ctxVars>>
                /\ IF res.raised # "none"
                   THEN /\ RunRaises(res.raised)
                        /\ invalid_seen' = invalid_seen + (IF verdict # "none" THEN 1 ELSE 0)
                        /\ created' = {}
                        /\ UNCHANGED <<step_i, pending, trajectory, reruns>>
                   ELSE LET result == res.status[1] IN
                        /\ raised_inside' = raised_inside
                        /\ IF result.should_rerun_step_agent
                           THEN \* return await self.step(task)
                                /\ reruns' = reruns + 1
                                /\ invalid_seen' = invalid_seen + (IF verdict # "none" THEN 1 ELSE 0)
                                /\ pc' = "step"
                                /\ pending' = <<>>
                                /\ created' = {result}
                                /\ UNCHANGED <<step_i, trajectory, response>>
                           ELSE IF ~result.success
                           THEN \* observe again, record the observation, stop the loop
                                /\ \E obs \in Observations :
                                      /\ trajectory' =
                                            add_step(add_output(add_step(trajectory, result),
                                                                trajectory[Len(trajectory)].agent_response),
                                                     FallbackStatus(obs))
                                      /\ created' = {result, FallbackStatus(obs)}
                                /\ pending' = <<>>
                                /\ NextTaskStep
                           ELSE /\ trajectory' = add_step(trajectory, result)
                                /\ created' = {result}
                                /\ pending' = Tail(pending)
                                /\ IF Tail(pending) = <<>>
                                   THEN NextTaskStep
                                   ELSE /\ pc' = "act"
                                        /\ invalid_seen' = invalid_seen
                                                           + (IF verdict # "none" THEN 1 ELSE 0)
                                        /\ UNCHANGED <<step_i, response, reruns>>

\* _run(): the completion decision is checked (303-326)
Check ==
    \E val \in ValidationResults :
        /\ pc = "check"
        /\ output' = None
        /\ call' = NoCall
        /\ IF ~CompletionSuccess(output)
           THEN /\ pc' = "done"
                /\ response' = Response(FALSE, output, "none")
                /\ created' = {}
                /\ UNCHANGED <<step_i, trajectory, reruns, invalid_seen, validations>>
           ELSE IF ValidatorAccepts(val)
           THEN /\ pc' = "done"
                /\ response' = Response(CompletionSuccess(output), output, "none")
                /\ created' = {}
                /\ validations' = Append(validations, val)
                /\ UNCHANGED <<step_i, trajectory, reruns, invalid_seen>>
           ELSE /\ trajectory' = add_step(trajectory,
                                           ValidationFailedStatus(output, val.reason))
                /\ created' = {ValidationFailedStatus(output, val.reason)}
                /\ validations' = Append(validations, val)
                /\ NextTaskStep
        /\ UNCHANGED <<execVars, cfgVars, winVars, pending, streakVars, raised_inside, ctxVars>>

\* _run(): the validator raises (310)
CheckRaises ==
    /\ pc = "check"
    /\ CompletionSuccess(output)
    /\ call' = NoCall
    /\ created' = {}
    /\ RunRaises("ValidatorError")
    /\ UNCHANGED <<execVars, cfgVars, winVars, step_i, pending, output, trajectory, reruns,
                   invalid_seen, streakVars, validations, ctxVars>>

Next == Run \/ Reason \/ ReasonRaises \/ Act \/ Check \/ CheckRaises

Spec == Init /\ [][Next]_vars

----------------------------------------------------------------------------
(* Conversation: the message buffer of the agent (agent.py 109-114) *)

\* largest token budget explored
MaxTokens == 3
\* largest size of a message that may fit; a message may also be one token larger
\* than the budget
MaxMessageTokens == 2
\* number of appends followed after a reset
MaxAppends == 4

Message(role, content, tokens) ==
    [role |-> role, content |-> content, tokens |-> tokens]

\* the estimated token count of a list of messages
RECURSIVE TotalTokens(_)
TotalTokens(msgs) ==
    IF msgs = <<>> THEN 0 ELSE Head(msgs).tokens + TotalTokens(Tail(msgs))

\* the oldest message of any role
OldestMessage(msgs) == IF msgs = <<>> THEN 0 ELSE 1

\* the position of the oldest non-system message, 0 when there is none
OldestNonSystem(msgs) ==
    IF \E i \in 1..Len(msgs) : msgs[i].role # "system"
    THEN CHOOSE i \in 1..Len(msgs) :
            /\ msgs[i].role # "system"
            /\ \A j \in 1..(i - 1) : msgs[j].role = "system"
    ELSE 0

RemoveAt(msgs, i) == SubSeq(msgs, 1, i - 1) \o SubSeq(msgs, i + 1, Len(msgs))

\* an autosizing pass that always keeps the newest message
RECURSIVE autosize_keep_newest(_, _)
autosize_keep_newest(msgs, budget) ==
    IF TotalTokens(msgs) <= budget \/ OldestNonSystem(msgs) = 0
       \/ OldestNonSystem(msgs) = Len(msgs)
    THEN msgs
    ELSE autosize_keep_newest(RemoveAt(msgs, OldestNonSystem(msgs)), budget)

\* the autosizing pass: whole non-system messages are evicted, oldest first, until
\* the estimate is within the budget or only system messages are left
RECURSIVE autosize(_, _)
autosize(msgs, budget) ==
    IF TotalTokens(msgs) <= budget \/ OldestNonSystem(msgs) = 0
    THEN msgs
    ELSE autosize(RemoveAt(msgs, OldestNonSystem(msgs)), budget)

\* add_system_message / add_user_message / add_assistant_message with autosize on
add_message(msgs, msg, budget) == autosize(Append(msgs, msg), budget)

\* the sizes a message may have under this budget
MessageSizes(budget) == (1..MaxMessageTokens) \cup {budget + 1}

\* everything but the conversation is at rest
ConversationOnly ==
    /\ max_consecutive_failures = DefaultMaxConsecutiveFailures
    /\ raise_on_failure = FALSE
    /\ precheck_func = "async"
    /\ on_failure_handlers = {"InvalidActionIDError"}
    /\ consecutive_failures = 0
    /\ call = NoCall
    /\ raise_condition = DefaultRaiseCondition
    /\ max_actions_per_step = DefaultMaxActionsPerStep
    /\ max_steps = 1
    /\ pc = "init"
    /\ step_i = 0
    /\ pending = <<>>
    /\ output = None
    /\ response = None
    /\ reruns = 0
    /\ invalid_seen = 0
    /\ created = {}
    /\ fail_streak = 0
    /\ validations = <<>>
    /\ raised_inside = "none"
    /\ WindowsIdle

\* Conversation(max_tokens=..., autosize=True) (agent.py 109-114)
InitConversation ==
    /\ ConversationOnly
    /\ trajectory = <<>>
    /\ conv = <<>>
    /\ max_tokens \in 1..MaxTokens
    /\ conv_log = <<>>
    /\ history_type = DefaultHistoryType
    /\ include_screenshot = FALSE
    /\ traj_log = <<>>

restVars == <<execVars, call, cfgVars, winVars, runVars, histVars, streakVars, runHistVars>>

AddMessage(role) ==
    \E tokens \in MessageSizes(max_tokens) :
        LET msg == Message(role, Len(conv_log) + 1, tokens)
        IN  /\ Len(conv_log) < MaxAppends
            /\ conv' = add_message(conv, msg, max_tokens)
            /\ conv_log' = Append(conv_log, msg)
            /\ UNCHANGED <<restVars, max_tokens, history_type, include_screenshot,
                           traj_log>>

\* conv.add_system_message: the agent adds one system message after each reset
AddSystemMessage ==
    /\ \A i \in 1..Len(conv_log) : conv_log[i].role # "system"
    /\ AddMessage("system")

AddUserMessage == AddMessage("user")

AddAssistantMessage == AddMessage("assistant")

\* conv.reset()
ConvReset ==
    /\ conv_log # <<>>
    /\ conv' = <<>>
    /\ conv_log' = <<>>
    /\ UNCHANGED <<restVars, max_tokens, history_type, include_screenshot, traj_log>>

NextConversation ==
    AddSystemMessage \/ AddUserMessage \/ AddAssistantMessage \/ ConvReset

SpecConversation == InitConversation /\ [][NextConversation]_vars

----------------------------------------------------------------------------
(* get_messages: the context built from the trajectory (agent.py 168-222) *)

\* number of add_output / add_step calls followed
MaxTrajectoryEvents == 4

\* AgentConfig.max_history_tokens
DefaultMaxHistoryTokens == 16000

\* one insertion into the trajectory: a reasoning output or a result
NoDecision == Decision(None, <<>>)
NoStatus == ExecutionStatus(None, None, FALSE, NoMessage, FALSE)
Event(kind, decision, status, obs) ==
    [kind |-> kind, decision |-> decision, status |-> status, obs |-> obs]
OutputEvent(decision) == Event("output", decision, NoStatus, None)
StepEvent(status) == Event("step", NoDecision, status, None)
ObservationEvent(obs) == Event("observation", NoDecision, NoStatus, obs)

RECURSIVE ResultEvents(_)
ResultEvents(results) ==
    IF results = <<>> THEN <<>>
    ELSE <<StepEvent(Head(results))>> \o ResultEvents(Tail(results))

\* trajectory.steps read back: every output and result, step by step
RECURSIVE Flatten(_)
Flatten(traj) ==
    IF traj = <<>> THEN <<>>
    ELSE <<OutputEvent(Head(traj).agent_response)>>
         \o ResultEvents(Head(traj).results)
         \o Flatten(Tail(traj))

\* a message of the context: what it renders (kind, of) and its attachment; every
\* message counts for one token
ContextMessage(role, kind, of, image) ==
    [role |-> role, content |-> [kind |-> kind, of |-> of], tokens |-> 1,
     image |-> image]

\* obs.screenshot if include_screenshot else None
Screenshot(obs, shot) == IF shot THEN obs ELSE None

\* the messages of one result (agent.py 191-208)
ResultMessages(result, ht, shot) ==
    <<ContextMessage("user", "step_result", <<StepEvent(result)>>, None)>>
    \o (IF ~result.success THEN <<>>
        ELSE IF ht = "full_conversation"
        THEN <<ContextMessage("user", "observation",
                              <<ObservationEvent(result.output)>>,
                              Screenshot(result.output, shot))>>
        ELSE IF ht = "short_observations_with_raw_data" /\ has_data(result.output)
        THEN <<ContextMessage("user", "raw_data",
                              <<ObservationEvent(result.output)>>, None)>>
        ELSE IF ht = "short_observations_with_short_data" /\ has_data(result.output)
        THEN <<ContextMessage("user", "short_data",
                              <<ObservationEvent(result.output)>>, None)>>
        ELSE <<>>)

RECURSIVE ResultsMessages(_, _, _)
ResultsMessages(results, ht, shot) ==
    IF results = <<>> THEN <<>>
    ELSE ResultMessages(Head(results), ht, shot)
         \o ResultsMessages(Tail(results), ht, shot)

\* the messages of one step entry (agent.py 186-208)
StepMessages(step, ht, shot) ==
    <<ContextMessage("assistant", "agent_response",
                     <<OutputEvent(step.agent_response)>>, None)>>
    \o ResultsMessages(step.results, ht, shot)

\* a replay that starts from the latest step entry
RECURSIVE TrajectoryMessagesNewestFirst(_, _, _)
TrajectoryMessagesNewestFirst(traj, ht, shot) ==
    IF traj = <<>> THEN <<>>
    ELSE TrajectoryMessagesNewestFirst(Tail(traj), ht, shot)
         \o StepMessages(Head(traj), ht, shot)

\* "for step in self.trajectory.steps" (agent.py 186)
RECURSIVE TrajectoryMessages(_, _, _)
TrajectoryMessages(traj, ht, shot) ==
    IF traj = <<>> THEN <<>>
    ELSE StepMessages(Head(traj), ht, shot)
         \o TrajectoryMessages(Tail(traj), ht, shot)

\* the add_*_message calls of get_messages, in order (agent.py 173-220)
ContextMessages(traj, ht, shot) ==
    <<ContextMessage("system", "system", <<>>, None),
      ContextMessage("user", "task", <<>>, None)>>
    \o (IF ht = "compressed"
        THEN <<ContextMessage("user", "trajectory", Flatten(traj), None)>>
        ELSE (IF Len(traj) = 0
              THEN <<ContextMessage("user", "start_rules", <<>>, None)>>
              ELSE <<>>)
             \o TrajectoryMessages(traj, ht, shot))
    \o (IF last_obs(traj) # None /\ ht # "full_conversation"
        THEN <<ContextMessage("user", "observation",
                              <<ObservationEvent(last_obs(traj))>>,
                              Screenshot(last_obs(traj), shot))>>
        ELSE <<>>)
    \o (IF Len(traj) > 0
        THEN <<ContextMessage("user", "action_message", <<>>, None)>>
        ELSE <<>>)

RECURSIVE AddAll(_, _, _)
AddAll(msgs, new, budget) ==
    IF new = <<>> THEN msgs
    ELSE AddAll(add_message(msgs, Head(new), budget), Tail(new), budget)

\* get_messages(task): conv.reset(), then the appends; returns conv.messages()
get_messages(traj, ht, shot, budget) ==
    AddAll(<<>>, ContextMessages(traj, ht, shot), budget)

\* the reasoning outputs and results a caller adds
ContextDecisions == {Decision(None, <<a>>) : a \in ActionIds}
ContextStatuses ==
    {SuccessStatus("a1", obs) : obs \in {"obs_a1", "obs_data"}}
    \cup {ExecutionStatus("a2", None, FALSE, ClassifiedMessage("Exception"), TRUE)}

InitContext ==
    /\ ConversationOnly
    /\ trajectory = <<>>
    /\ traj_log = <<>>
    /\ conv = <<>>
    /\ conv_log = <<>>
    /\ max_tokens \in {MaxTokens, DefaultMaxHistoryTokens}
    /\ history_type \in HistoryTypes
    /\ include_screenshot \in BOOLEAN

ctxFixed ==
    <<max_consecutive_failures, raise_on_failure, precheck_func, on_failure_handlers,
      cfgVars, winVars, pc, step_i, pending, output, response, histVars, runHistVars,
      max_tokens, history_type, include_screenshot>>
ctxRest == <<ctxFixed, call, consecutive_failures, fail_streak>>

\* the message invalid_action_id_handler adds (agent.py 124-126)
CorrectiveMessage == ContextMessage("user", "corrective", <<>>, None)

\* the handler has run and step() is starting again (agent.py 248-250): its first
\* statement is get_messages (229), which nothing precedes
RestartPending == conv_log # <<>> /\ conv_log[Len(conv_log)] = CorrectiveMessage

\* trajectory.add_output(response) (agent.py 238)
AddOutput ==
    \E decision \in ContextDecisions :
        /\ Len(traj_log) < MaxTrajectoryEvents
        /\ ~RestartPending
        /\ trajectory' = add_output(trajectory, decision)
        /\ traj_log' = Append(traj_log, OutputEvent(decision))
        /\ call' = NoCall
        /\ UNCHANGED <<ctxFixed, consecutive_failures, fail_streak, conv, conv_log>>

\* trajectory.add_step(result) (agent.py 252, 268); a result that succeeded has
\* reset the executor's counter (safe_executor.py 94)
AddStep ==
    \E status \in ContextStatuses :
        /\ Len(traj_log) < MaxTrajectoryEvents
        /\ trajectory # <<>>
        /\ ~RestartPending
        /\ trajectory' = add_step(trajectory, status)
        /\ traj_log' = Append(traj_log, StepEvent(status))
        /\ call' = NoCall
        /\ consecutive_failures' = IF status.success
                                   THEN CounterAfterSuccess(consecutive_failures)
                                   ELSE consecutive_failures
        /\ fail_streak' = IF status.success THEN 0 ELSE fail_streak
        /\ UNCHANGED <<ctxFixed, conv, conv_log>>

\* get_messages(task) (agent.py 168-222)
GetMessages ==
    /\ conv' = get_messages(trajectory, history_type, include_screenshot, max_tokens)
    /\ conv_log' = ContextMessages(trajectory, history_type, include_screenshot)
    /\ UNCHANGED <<ctxRest, trajectory, traj_log>>

\* step(): step_executor.execute(action) fails with InvalidActionIDError below the
\* ceiling; on_failure calls invalid_action_id_handler, which appends to the
\* conversation, and returns a status that makes step() start again (244-250)
InvalidActionFailure ==
    \E action \in {NextAction(trajectory[i].agent_response.actions) :
                        i \in {Len(trajectory)} \ {0}} :
        LET rec == ExecuteRecord(consecutive_failures, action, precheck_action(action),
                                 [ok |-> FALSE, value |-> "InvalidActionIDError"],
                                 get_valid_action_set(last_obs(trajectory)))
        IN  /\ trajectory # <<>>
            /\ Len(trajectory[Len(trajectory)].results) < max_actions_per_step
            /\ conv_log # <<>>
            /\ call = NoCall
            /\ rec.result.raised = "none"
            /\ call' = rec
            /\ consecutive_failures' = rec.result.consecutive_failures
            /\ fail_streak' = StreakAfter(rec)
            /\ conv' = IF rec.result.handled # <<>>
                       THEN add_message(conv, CorrectiveMessage, max_tokens)
                       ELSE conv
            /\ conv_log' = IF rec.result.handled # <<>>
                           THEN Append(conv_log, CorrectiveMessage)
                           ELSE conv_log
            /\ UNCHANGED <<ctxFixed, trajectory, traj_log>>

NextContext == AddOutput \/ AddStep \/ GetMessages \/ InvalidActionFailure

SpecContext == InitContext /\ [][NextContext]_vars

----------------------------------------------------------------------------
(* Properties of SafeActionExecutor, checked under SpecExecutor *)

\* the status the latest call returned, when it returned one
Returned == call.op = "execute" /\ call.result.raised = "none"
             /\ Len(call.result.status) = 1
ReturnedStatus == call.result.status[1]
RaisedNothingBack == call.result.status = <<>>

\* C1: a call whose operation succeeds returns a status with success = true and
\* the output present; a failing call that returns a status returns it with
\* success = false and the output absent
C1_StatusShape ==
    /\ Succeeded(call) =>
          /\ Returned
          /\ ReturnedStatus.success
          /\ ReturnedStatus.output # None
          /\ ReturnedStatus.output = call.func.value
    /\ (Failed(call) /\ Returned) =>
          /\ ~ReturnedStatus.success
          /\ ReturnedStatus.output = None

\* a failing call after an earlier failure returned a status
C1_Witness ==
    Failed(call) /\ Returned /\ call.pre >= 1 /\ ~raise_on_failure

\* C3: consecutive_failures is 0 right after every successful call
C3_ResetOnSuccess ==
    Succeeded(call) => consecutive_failures = 0

\* a call succeeded after two failures in a row
C3_Witness ==
    Succeeded(call) /\ call.pre >= 2 /\ consecutive_failures = 0

\* C4 as stated: after max_consecutive_failures failing calls in a row, the next
\* call raises MaxConsecutiveFailuresError
C4_Original ==
    (call.op = "execute" /\ call.streak >= max_consecutive_failures)
        => call.result.raised = "MaxConsecutiveFailuresError"

\* C4 as amended: after max_consecutive_failures failing calls in a row, the next
\* call raises MaxConsecutiveFailuresError whenever it fails, whatever
\* raise_on_failure is
C4_NextFailureIsFatal ==
    (call.op = "execute" /\ call.streak >= max_consecutive_failures /\ Failed(call))
        => /\ call.result.raised = "MaxConsecutiveFailuresError"
           /\ RaisedNothingBack

\* a lenient executor fails once more after max_consecutive_failures failures
C4_Witness ==
    /\ call.op = "execute"
    /\ call.streak >= max_consecutive_failures
    /\ Failed(call)
    /\ ~raise_on_failure

\* the state part of C5: a failing call adds exactly one to the counter, and a
\* counter at or above the ceiling means the latest operation was a failing call
\* that raised MaxConsecutiveFailuresError and returned no status
C5_State ==
    /\ Failed(call) => consecutive_failures = call.pre + 1
    /\ consecutive_failures >= max_consecutive_failures =>
          /\ Failed(call)
          /\ call.result.raised = "MaxConsecutiveFailuresError"
          /\ RaisedNothingBack

\* C5: the counter never reaches the ceiling without MaxConsecutiveFailuresError
\* being raised to the caller, whatever raise_on_failure is, and it only ever
\* grows by 1, on a failing call
C5_CeilingIsFatal ==
    /\ []C5_State
    /\ [][consecutive_failures' > consecutive_failures =>
            (consecutive_failures' = consecutive_failures + 1 /\ Failed(call'))]_vars

\* a strict executor reaches the ceiling: the fatal error wins
C5_Witness ==
    /\ Failed(call)
    /\ raise_on_failure
    /\ consecutive_failures >= max_consecutive_failures
    /\ call.result.raised = "MaxConsecutiveFailuresError"

\* the message a failure of class e is reported with
C6_Message(e) ==
    [of |-> e,
     text |-> CASE e = "RateLimitError" -> "Rate limit reached"
                [] e \in {"NotteBaseError", "InvalidActionIDError"} ->
                      IF raise_on_failure THEN "dev_message" ELSE "agent_message"
                [] e = "ValidationError" -> "JSON Schema Validation error"
                [] e = "Exception" -> "An unexpected error occurred"]

\* C6: a failing call that leaves the counter below the ceiling raises
\* StepExecutionFailure with the classified message and returns no status when
\* raise_on_failure is true, and returns a failed status with the classified
\* message, raising nothing, when it is false
C6_BelowCeiling ==
    (Failed(call) /\ consecutive_failures < max_consecutive_failures) =>
        IF raise_on_failure
        THEN /\ call.result.raised = "StepExecutionFailure"
             /\ RaisedNothingBack
             /\ call.result.message = C6_Message(FailureKind(call))
        ELSE /\ Returned
             /\ ~ReturnedStatus.success
             /\ ReturnedStatus.message = C6_Message(FailureKind(call))

\* a strict executor fails below the ceiling
C6_Witness ==
    /\ Failed(call)
    /\ raise_on_failure
    /\ consecutive_failures < max_consecutive_failures
    /\ call.result.raised = "StepExecutionFailure"

----------------------------------------------------------------------------
(* Properties of FalcoAgent, checked under Spec *)

\* C2: every ExecutionStatus created in a run has should_rerun_step_agent = true
\* only if success = false
C2_RerunOnlyOnFailure ==
    \A status \in created : status.should_rerun_step_agent => ~status.success

\* the step executor returned a status that asks for a re-run
C2_Witness ==
    \E status \in created : status.should_rerun_step_agent /\ ~status.success

\* the latest action executed a candidate whose id is not in the (non-empty)
\* valid-action set of the last valid observation, on a step after the first,
\* with the lenient executor below its ceiling
InvalidCandidate ==
    /\ call.op = "execute"
    /\ call.verdict = "InvalidActionIDError"
    /\ call.valid_set # {}
    /\ call.input \notin call.valid_set
    /\ ~raise_on_failure
    /\ call.pre + 1 < max_consecutive_failures

\* C7 as stated: for a candidate whose id is not valid, on a step after the first,
\* the step executor signals should_rerun and the result does not enter the
\* trajectory
C7_Original ==
    InvalidCandidate =>
        /\ Returned
        /\ ReturnedStatus.should_rerun_step_agent
        /\ \A i \in 1..Len(AllResults(trajectory)) :
              AllResults(trajectory)[i] # ReturnedStatus

\* C8 as stated: when the precheck rejects the candidate, the environment's act is
\* not called with it and the rejection counts as one failure
C8_Original ==
    InvalidCandidate =>
        /\ ~call.result.func_ran
        /\ consecutive_failures = call.pre + 1

DefaultConfiguration ==
    /\ max_consecutive_failures = DefaultMaxConsecutiveFailures
    /\ raise_condition = DefaultRaiseCondition
    /\ max_actions_per_step = DefaultMaxActionsPerStep

\* C9 as stated: with the default configuration, once three invalid ids in a row
\* have been executed within one task step, the run has not ended with an error
\* and should_rerun was observed three times
C9_Original ==
    (DefaultConfiguration /\ invalid_seen = 3) =>
        /\ pc # "raised"
        /\ reruns = 3

\* C10 as stated: the forced restarts of step() inside one task step are bounded
\* by max_consecutive_failures
C10_Original ==
    reruns <= max_consecutive_failures

----------------------------------------------------------------------------
(* Properties of FalcoAgent.run, checked under Spec *)

\* no reasoning call of the run emitted a completion decision
NoCompletionEmitted ==
    \A i \in 1..Len(trajectory) : trajectory[i].agent_response.output = None

\* the run returned because the step budget was used up
BudgetExhausted ==
    /\ pc = "done"
    /\ raised_inside = "none"
    /\ NoCompletionEmitted

\* C11 as stated: a run with step budget max_steps in which no completion decision
\* is emitted and no error propagates returns success = false with the answer
\* citing the budget, and its trajectory holds at most max_steps step entries
C11_Original ==
    BudgetExhausted =>
        /\ ~response.success
        /\ response.answer = "Failed to solve task in max_steps steps"
        /\ Len(trajectory) <= max_steps

LastDecision == trajectory[Len(trajectory)].agent_response
LastValidation == validations[Len(validations)]

\* C12: run() returns success = true only when the latest reasoning decision is a
\* completion with success = true and the validator accepted it; a run that ends
\* by raising returns no successful response
C12_SuccessOnlyIfValidated ==
    /\ (pc = "done" /\ response.success) =>
          /\ trajectory # <<>>
          /\ LastDecision.output = "done_success"
          /\ response.answer = "done_success"
          /\ validations # <<>>
          /\ LastValidation.is_valid
    /\ pc = "raised" => (~response.success /\ response.raised # "none")

\* a success returned after the validator had rejected an earlier completion
C12_Witness ==
    /\ pc = "done"
    /\ response.success
    /\ Len(validations) = 2
    /\ ~validations[1].is_valid

\* the validator has just rejected a completion decision
RejectedNow ==
    /\ pc = "check"
    /\ Len(validations') = Len(validations) + 1
    /\ ~validations'[Len(validations')].is_valid

\* C13: when the validator rejects a completion with success = true, a failed
\* result carrying the validator's reason joins the latest step entry and the loop
\* goes on to the next task step; the run ends there only when the step budget is
\* used up, and then as failed with the step-budget answer
C13_RejectionContinues ==
    [][RejectedNow =>
          LET n == Len(trajectory)
              rs == trajectory'[n].results
              last == rs[Len(rs)]
          IN  /\ Len(trajectory') = n
              /\ SubSeq(trajectory', 1, n - 1) = SubSeq(trajectory, 1, n - 1)
              /\ rs = Append(trajectory[n].results, last)
              /\ ~last.success
              /\ last.output = None
              /\ last.input = output
              /\ last.message.text = "Final validation failed"
              /\ last.message.of = validations'[Len(validations')].reason
              /\ step_i' = step_i + 1
              /\ IF step_i + 1 < max_steps
                 THEN pc' = "step"
                 ELSE /\ pc' = "done"
                      /\ ~response'.success
                      /\ response'.answer = "Failed to solve task in max_steps steps"
      ]_vars

\* the run goes on after a rejection
C13_Witness ==
    /\ pc = "step"
    /\ step_i = 1
    /\ Len(validations) = 1
    /\ ~validations[1].is_valid
    /\ trajectory[Len(trajectory)].results # <<>>
    /\ ~trajectory[Len(trajectory)].results[1].success

\* C14: a completion decision that reports failure ends the run at once as failed
\* with the decision's answer: the validator is not consulted, nothing is executed
\* or appended, and nothing happens after the run has returned
C14_FailureEndsRun ==
    /\ [][(pc = "check" /\ output = "done_failure") =>
              /\ pc' = "done"
              /\ ~response'.success
              /\ response'.answer = "done_failure"
              /\ response'.raised = "none"
              /\ validations' = validations
              /\ trajectory' = trajectory
              /\ call'.op # "execute"
              /\ consecutive_failures' = consecutive_failures
          ]_vars
    /\ [][pc = "done" => UNCHANGED <<pc, trajectory, validations, response>>]_vars

\* a run that ended on a failure completion after an action had been executed
C14_Witness ==
    /\ pc = "done"
    /\ response.answer = "done_failure"
    /\ Len(trajectory) = 2
    /\ trajectory[1].results # <<>>
    /\ validations = <<>>

\* a reasoning call has just returned a decision with a completion signal
CompletionDecided ==
    /\ pc = "step"
    /\ Len(trajectory') = Len(trajectory) + 1
    /\ trajectory'[Len(trajectory')].agent_response.output # None

\* C15: when a decision carries a completion signal none of its candidate actions
\* is executed: from the reasoning call to the completion check no execute() call
\* is made and consecutive_failures keeps its value
C15_CompletionSkipsActions ==
    /\ [][CompletionDecided =>
              /\ pc' = "check"
              /\ output' = trajectory'[Len(trajectory')].agent_response.output
              /\ pending' = <<>>
              /\ call'.op # "execute"
              /\ consecutive_failures' = consecutive_failures
          ]_vars
    /\ [][pc = "check" =>
              /\ call'.op # "execute"
              /\ consecutive_failures' = consecutive_failures
          ]_vars

\* a completion decision with a candidate action, reached with a failure counted
C15_Witness ==
    /\ pc = "check"
    /\ LastDecision.actions = <<"a1">>
    /\ consecutive_failures = 1
    /\ call = NoCall

\* C16: an exception raised inside the run is converted, with raise_condition
\* NEVER, into a returned response with success = false and an answer describing
\* the failure; with RETRY or IMMEDIATELY the same exception leaves run()
C16_RaisePolicy ==
    /\ (call.op = "execute" /\ call.result.raised # "none") =>
          raised_inside = call.result.raised
    /\ raised_inside # "none" =>
          IF raise_condition = "never"
          THEN /\ pc = "done"
               /\ ~response.success
               /\ response.answer = "Failed due to"
               /\ response.raised = "none"
          ELSE /\ pc = "raised"
               /\ response.raised = raised_inside
    /\ pc = "raised" => (raise_condition # "never" /\ raised_inside # "none")

\* the failure ceiling was hit with raise_condition NEVER
C16_Witness ==
    /\ raise_condition = "never"
    /\ raised_inside = "MaxConsecutiveFailuresError"
    /\ call.pre = 2
    /\ pc = "done"

\* C17: once the step executor has raised MaxConsecutiveFailuresError the run has
\* ended, under every raise condition, and nothing is executed or appended after
C17_CeilingEndsRun ==
    /\ [](raised_inside = "MaxConsecutiveFailuresError" => pc \in {"done", "raised"})
    /\ []((call.op = "execute" /\ call.result.raised = "MaxConsecutiveFailuresError")
           => raised_inside = "MaxConsecutiveFailuresError")
    /\ [][raised_inside = "MaxConsecutiveFailuresError" =>
              UNCHANGED <<pc, trajectory, call, consecutive_failures, response>>]_vars

\* the ceiling was hit with raise_condition RETRY, after recorded results
C17_Witness ==
    /\ raise_condition = "retry"
    /\ call.op = "execute"
    /\ call.result.raised = "MaxConsecutiveFailuresError"
    /\ pc = "raised"
    /\ AllResults(trajectory) # <<>>

----------------------------------------------------------------------------
(* Properties of the Conversation, checked under SpecConversation *)

IsSystem(msg) == msg.role = "system"
IsNotSystem(msg) == msg.role # "system"
SystemMessages(msgs) == SelectSeq(msgs, IsSystem)
NonSystemMessages(msgs) == SelectSeq(msgs, IsNotSystem)

IsSuffix(a, b) ==
    /\ Len(a) <= Len(b)
    /\ a = SubSeq(b, Len(b) - Len(a) + 1, Len(b))

\* C19: after any sequence of appends since the last reset the buffer holds the
\* system message, if one was added, and a suffix of the appended non-system
\* messages, everything in the order of the appends
C19_EvictsOldestNonSystem ==
    /\ SystemMessages(conv) = SystemMessages(conv_log)
    /\ IsSuffix(NonSystemMessages(conv), NonSystemMessages(conv_log))
    /\ \A i, j \in 1..Len(conv) : i < j => conv[i].content < conv[j].content

\* two of three non-system messages were evicted while the system message, added
\* after the first of them, stayed
C19_Witness ==
    /\ Len(conv_log) = 4
    /\ conv_log[2].role = "system"
    /\ Len(conv) = 2
    /\ conv[1].role = "system"

----------------------------------------------------------------------------
(* Properties of the trajectory and its replay, checked under SpecContext *)

IsPrefix(a, b) == Len(a) <= Len(b) /\ a = SubSeq(b, 1, Len(a))

\* the outputs and results a list of messages replays, in the order of the list
RECURSIVE Replayed(_)
Replayed(msgs) ==
    IF msgs = <<>> THEN <<>>
    ELSE (IF Head(msgs).content.kind \in {"agent_response", "step_result", "trajectory"}
          THEN Head(msgs).content.of
          ELSE <<>>)
         \o Replayed(Tail(msgs))

\* C20: the trajectory reads back every add_output / add_step in insertion order
\* and only grows at its end; get_messages, under each history type, leaves the
\* trajectory as it is and replays its outputs and results in that order (the
\* messages left after autosizing replay the latest of them, in order)
C20_TrajectoryOrder ==
    /\ [](Flatten(trajectory) = traj_log)
    /\ [][IsPrefix(traj_log, traj_log') /\ IsPrefix(Flatten(trajectory), Flatten(trajectory'))]_vars
    /\ [][(conv_log' # conv_log /\ conv_log' # Append(conv_log, CorrectiveMessage)) =>
              /\ trajectory' = trajectory
              /\ Replayed(conv_log') = traj_log
              /\ IsSuffix(Replayed(conv'), traj_log)
          ]_vars

\* a context built from two step entries with results, no message evicted
C20_Witness ==
    /\ Len(trajectory) = 2
    /\ trajectory[1].results # <<>>
    /\ trajectory[2].results # <<>>
    /\ trajectory[1].agent_response # trajectory[2].agent_response
    /\ conv = conv_log
    /\ Replayed(conv) = traj_log
    /\ Len(traj_log) = 4

----------------------------------------------------------------------------
(* Properties of the action loop of FalcoAgent.step, checked under Spec *)

\* the results recorded for the latest reasoning decision
LatestResults == trajectory[Len(trajectory)].results

\* the latest call was an execution failure: the action id passed the validity
\* rule, the environment's act raised, the executor is lenient and below its
\* ceiling
ExecutionFailure ==
    /\ call.op = "execute"
    /\ call.verdict = "none"
    /\ call.result.func_ran
    /\ ~call.func.ok
    /\ call.func.value # "InvalidActionIDError"
    /\ ~raise_on_failure
    /\ call.pre + 1 < max_consecutive_failures

\* C22 as stated: an execution failure does not restart the step: the failed result
\* is recorded in the trajectory, a fresh observation is recorded after it as a
\* successful step, and no further action of the decision is executed
C22_Original ==
    ExecutionFailure =>
        /\ Returned
        /\ \E i \in 1..Len(AllResults(trajectory)) :
              AllResults(trajectory)[i] = ReturnedStatus
        /\ LatestResults # <<>>
        /\ LatestResults[Len(LatestResults)].input = "FallbackObserveAction"
        /\ LatestResults[Len(LatestResults)].success
        /\ pending = <<>>

\* C23: the actions executed for a reasoning decision are, in the decision's
\* order, its first max_actions_per_step candidates up to the first one that does
\* not succeed; nothing of the decision is executed after a failure
C23_ActionsInOrder ==
    (trajectory # <<>> /\ LastDecision.output = None) =>
        LET acts == get_actions(LastDecision, max_actions_per_step)
            done == LatestResults
        IN  /\ Len(done) <= Len(acts)
            /\ \A i \in 1..Len(done) : done[i].input = acts[i] /\ done[i].success
            /\ pc = "act" =>
                  /\ Len(done) < Len(acts)
                  /\ pending = SubSeq(acts, Len(done) + 1, Len(acts))
            /\ Succeeded(call) =>
                  /\ Len(done) >= 1
                  /\ call.input = acts[Len(done)]
                  /\ done[Len(done)] = ReturnedStatus
            /\ Failed(call) =>
                  /\ Len(done) < Len(acts)
                  /\ call.input = acts[Len(done) + 1]
                  /\ pc # "act"

\* the second of two candidate actions failed after the first had succeeded
C23_Witness ==
    /\ trajectory # <<>>
    /\ LastDecision = Decision(None, <<"a1", "a2">>)
    /\ max_actions_per_step = 2
    /\ Failed(call)
    /\ call.input = "a2"
    /\ Len(LatestResults) = 1

\* C27 as stated: the validity rule is skipped on the first reasoning call of the
\* run only; on every later one, a forced re-run of the first step included, an
\* action whose id is not in the action space of the last valid observation is
\* not passed on to execution
C27_Original ==
    call.op = "execute" => (call.result.func_ran <=> call.verdict = "none")

\* C28: every failure status the step executor returns asks for a re-run, so
\* step() restarts without recording it and no fallback observation is ever
\* recorded
C28_EveryFailureReruns ==
    /\ (Returned /\ ~ReturnedStatus.success) =>
          /\ ReturnedStatus.should_rerun_step_agent
          /\ pc = "step"
          /\ pending = <<>>
          /\ \A i \in 1..Len(AllResults(trajectory)) :
                AllResults(trajectory)[i] # ReturnedStatus
    /\ \A i \in 1..Len(AllResults(trajectory)) :
          AllResults(trajectory)[i].input # "FallbackObserveAction"
    /\ \A status \in created : status.input # "FallbackObserveAction"

\* a second failure in a row, of the schema-validation kind, was returned
C28_Witness ==
    /\ Returned
    /\ ~ReturnedStatus.success
    /\ call.func.value = "ValidationError"
    /\ call.pre = 1
    /\ pc = "step"

----------------------------------------------------------------------------
(* Further properties of SafeActionExecutor, checked under SpecExecutor *)

\* C25: a failing call whose exception class has a registered handler invokes it
\* exactly once, with that exception and after the counter was incremented,
\* whether the call then raises or returns; any other call invokes no handler
C25_HandlerOnce ==
    call.op = "execute" =>
        IF Failed(call) /\ FailureKind(call) \in on_failure_handlers
        THEN call.result.handled =
                <<[e |-> FailureKind(call), seen |-> call.pre + 1]>>
        ELSE call.result.handled = <<>>

\* the handler ran on the call that raised MaxConsecutiveFailuresError
C25_Witness ==
    /\ call.op = "execute"
    /\ call.result.raised = "MaxConsecutiveFailuresError"
    /\ call.result.handled # <<>>
    /\ call.pre >= 1

\* C29: consecutive_failures is the number of failing execute() calls since the
\* latest of construction, the last successful call and the last reset(); a
\* raised MaxConsecutiveFailuresError or StepExecutionFailure leaves the count
C29_CounterCountsFailures ==
    /\ consecutive_failures = fail_streak
    /\ Failed(call) => consecutive_failures = call.pre + 1
    /\ (call.op = "execute" /\ call.result.raised # "none") => consecutive_failures >= 1

\* a call failed after the ceiling had already been hit: the count goes on
C29_Witness ==
    /\ call.op = "execute"
    /\ call.result.raised = "MaxConsecutiveFailuresError"
    /\ call.pre = max_consecutive_failures
    /\ consecutive_failures = max_consecutive_failures + 1

----------------------------------------------------------------------------
(* Properties of get_messages, checked under SpecContext *)

\* the conversation holds the context built from the trajectory as it is now,
\* and autosizing evicted nothing of it
FreshContext ==
    /\ conv_log # <<>>
    /\ conv_log = ContextMessages(trajectory, history_type, include_screenshot)
    /\ conv = conv_log

LastMessage == conv[Len(conv)]

\* C24 as stated: when the trajectory holds a successful observation, the list
\* get_messages builds ends with a user message that renders the most recent valid
\* observation, with its screenshot exactly when include_screenshot is on
C24_Original ==
    (FreshContext /\ last_obs(trajectory) # None) =>
        /\ conv # <<>>
        /\ LastMessage.role = "user"
        /\ LastMessage.content.kind = "observation"
        /\ LastMessage.content.of = <<ObservationEvent(last_obs(trajectory))>>
        /\ LastMessage.image = Screenshot(last_obs(trajectory), include_screenshot)

\* the context was rebuilt by the step that an invalid-action failure restarted
RerunContext ==
    /\ call.op = "execute"
    /\ call.func.value = "InvalidActionIDError"
    /\ call.result.handled # <<>>
    /\ Returned
    /\ ReturnedStatus.should_rerun_step_agent
    /\ FreshContext

\* C26 as stated: the corrective message the handler appended after an
\* invalid-action failure is among the messages the restarted step submits
C26_Original ==
    RerunContext =>
        \E i \in 1..Len(conv) : conv[i] = CorrectiveMessage


----------------------------------------------------------------------------
(* GlobalWindowManager: one class-level WindowManager shared by every run  *)
(* (playwright.py 193-214). Each run is a coroutine that gives up control  *)
(* at the awaits that wait for the playwright driver; one action is the    *)
(* code between two such awaits. A playwright instance is named by a       *)
(* number; a browser is named by the instance that launched it, since a    *)
(* new_window call launches with the instance it has just started.         *)
(***************************************************************************)
MaxInstances == 3

SetRun(f, r, v) == [f EXCEPT ![r] = v]

winRest == <<execVars, call, cfgVars, runVars, histVars, streakVars, runHistVars, ctxVars>>

\* calls that are past the entry of new_window and have yet to start their instance
Starting == {q \in Runs : win_pc[q] \in {"nw_stopping", "nw_starting"}}

\* the driver behind a browser is gone once its playwright instance was stopped
BrowserLost(b) == b \in stopped

\* new_window raised: the caller is left without a window
NewWindowRaises(r) ==
    /\ win_pc' = SetRun(win_pc, r, "idle")
    /\ resource' = SetRun(resource, r, NoBrowser)

\* GlobalWindowManager.new_window, up to the first await that waits:
\* manager.stop() awaits _playwright.stop() when there is an instance (199, 42-43),
\* otherwise manager.start() awaits async_playwright().start() (200, 36-37)
NewWindow(r) ==
    /\ win_pc[r] = "idle"
    /\ instances + Cardinality(Starting) < MaxInstances
    /\ IF playwright # NoInstance
       THEN /\ stopped' = stopped \cup {playwright}
            /\ win_pc' = SetRun(win_pc, r, "nw_stopping")
       ELSE /\ stopped' = stopped
            /\ win_pc' = SetRun(win_pc, r, "nw_starting")
    /\ UNCHANGED <<playwright, browser, started, instances, resource, winRest>>

\* _playwright.stop() returned: _playwright = None (44), then start() finds no
\* instance and awaits async_playwright().start() (36-37)
NewWindowStopped(r) ==
    /\ win_pc[r] = "nw_stopping"
    /\ playwright' = NoInstance
    /\ win_pc' = SetRun(win_pc, r, "nw_starting")
    /\ UNCHANGED <<browser, started, instances, stopped, resource, winRest>>

\* async_playwright().start() returned: the instance is stored (37), started = True
\* (201), and manager.new_window -> get_browser_resource launches a browser when
\* manager.browser is None (151-152, 121) or asks the existing one for a context (161)
NewWindowStarted(r) ==
    /\ win_pc[r] = "nw_starting"
    /\ instances' = instances + 1
    /\ playwright' = instances + 1
    /\ started' = TRUE
    /\ IF browser = NoBrowser
       THEN /\ resource' = SetRun(resource, r, instances + 1)
            /\ win_pc' = SetRun(win_pc, r, "nw_launching")
       ELSE /\ resource' = SetRun(resource, r, browser)
            /\ win_pc' = SetRun(win_pc, r, "nw_context")
    /\ UNCHANGED <<browser, stopped, winRest>>

\* chromium.launch returned or raised: self.browser = browser (133, 152), then
\* browser.new_context is awaited (161)
NewWindowLaunched(r) ==
    /\ win_pc[r] = "nw_launching"
    /\ IF BrowserLost(resource[r])
       THEN /\ NewWindowRaises(r)
            /\ browser' = browser
       ELSE /\ browser' = resource[r]
            /\ win_pc' = SetRun(win_pc, r, "nw_context")
            /\ resource' = resource
    /\ UNCHANGED <<playwright, started, instances, stopped, winRest>>

\* browser.new_context returned or raised; a new context has no page, so
\* context.new_page is awaited (178-179)
NewWindowContext(r) ==
    /\ win_pc[r] = "nw_context"
    /\ IF BrowserLost(resource[r])
       THEN NewWindowRaises(r)
       ELSE /\ win_pc' = SetRun(win_pc, r, "nw_page")
            /\ resource' = resource
    /\ UNCHANGED <<playwright, browser, started, instances, stopped, winRest>>

\* context.new_page returned or raised; the BrowserWindow is handed to the run (182-189, 202)
NewWindowPage(r) ==
    /\ win_pc[r] = "nw_page"
    /\ IF BrowserLost(resource[r])
       THEN NewWindowRaises(r)
       ELSE /\ win_pc' = SetRun(win_pc, r, "open")
            /\ resource' = resource
    /\ UNCHANGED <<playwright, browser, started, instances, stopped, winRest>>

\* close_window left the manager without browser and not started (213-214)
WindowClosed(r) ==
    /\ browser' = NoBrowser
    /\ started' = FALSE
    /\ win_pc' = SetRun(win_pc, r, "idle")
    /\ resource' = SetRun(resource, r, NoBrowser)

\* GlobalWindowManager.close_window, up to the first await that waits: when started,
\* release_browser_resource awaits context.close() (206-208, 189-190)
CloseWindow(r) ==
    /\ win_pc[r] = "open"
    /\ IF started
       THEN /\ win_pc' = SetRun(win_pc, r, "cw_releasing")
            /\ UNCHANGED <<browser, started, resource>>
       ELSE WindowClosed(r)
    /\ UNCHANGED <<playwright, instances, stopped, winRest>>

\* context.close() returned or raised (a raise clears manager.browser, 209-211);
\* manager.stop() awaits _playwright.stop() when there is an instance (212, 42-43)
CloseWindowReleased(r) ==
    /\ win_pc[r] = "cw_releasing"
    /\ IF playwright # NoInstance
       THEN /\ stopped' = stopped \cup {playwright}
            /\ browser' = IF BrowserLost(resource[r]) THEN NoBrowser ELSE browser
            /\ win_pc' = SetRun(win_pc, r, "cw_stopping")
            /\ UNCHANGED <<started, resource>>
       ELSE /\ stopped' = stopped
            /\ WindowClosed(r)
    /\ UNCHANGED <<playwright, instances, winRest>>

\* _playwright.stop() returned: _playwright = None (44), browser = None,
\* started = False (213-214)
CloseWindowStopped(r) ==
    /\ win_pc[r] = "cw_stopping"
    /\ playwright' = NoInstance
    /\ WindowClosed(r)
    /\ UNCHANGED <<instances, stopped, winRest>>

InitWindows ==
    /\ ConversationOnly
    /\ trajectory = <<>>
    /\ ContextIdle

NextWindows ==
    \E r \in Runs :
        \/ NewWindow(r)
        \/ NewWindowStopped(r)
        \/ NewWindowStarted(r)
        \/ NewWindowLaunched(r)
        \/ NewWindowContext(r)
        \/ NewWindowPage(r)
        \/ CloseWindow(r)
        \/ CloseWindowReleased(r)
        \/ CloseWindowStopped(r)

SpecWindows == InitWindows /\ [][NextWindows]_vars

\* a run holds an open window
WindowOpen(r) == win_pc[r] = "open"

\* C21 as stated: while a run's window stays open, no step of another run stops
\* the playwright instance behind that window's browser or clears the manager's
\* browser when it is the one behind that window
C21_Original ==
    [][\A r \in Runs :
           (WindowOpen(r) /\ win_pc'[r] = "open") =>
               /\ (~BrowserLost(resource[r]) => resource[r] \notin stopped')
               /\ (browser = resource[r] => browser' = resource[r])
      ]_vars


\* no new_window or close_window call is in flight
CallsCompleted == \A r \in Runs : win_pc[r] \in {"idle", "open"}

\* C31 as stated: once the calls made so far have completed, a non-null manager
\* browser was launched by the playwright instance the manager still holds, and
\* that instance was not stopped
C31_Original ==
    (CallsCompleted /\ browser # NoBrowser) =>
        /\ playwright = browser
        /\ ~BrowserLost(browser)

====
